---------------------------- MODULE Spec2Model ----------------------------
(***************************************************************************)
(* Model of the ad-hoc scanner of src/src/scanner.c (the revision that     *)
(* starts at line 292: eleven lex functions tried in a fixed order by      *)
(* get_next_token, driven by the loop in main).                            *)
(*                                                                         *)
(* Characters are one-character strings; a C string is the sequence of its *)
(* characters up to the terminating NUL.  The value a `char` holds after   *)
(* `char c = fgetc(fin)` hit end of file is EOF (char is signed in the     *)
(* gcc/x86 build of the Makefile, so c == EOF is true and ungetc(c, fin)   *)
(* is ungetc(EOF, fin), which does nothing).  The input stream is the      *)
(* sequence of characters still unread: the characters pushed back with    *)
(* ungetc followed by the rest of the file (glibc keeps every pushed back  *)
(* character).  Inputs hold no NUL and no 0xFF byte.  Identifiers, whose    *)
(* length scan_iden declares unlimited, come in every length up to one     *)
(* character more than its buffer holds; the other lexemes are shorter     *)
(* than the buffer of their lex function (the fixed maximum lexeme lengths *)
(* of spec 4.1: INTE_MAX_LEN, FLOT_MAX_LEN, ...).                          *)
(***************************************************************************)
EXTENDS Naturals, Sequences, FiniteSets, TLC

\* ------------------------------------------------------------------ bounds
\* longest input drawn from Alphabet
MaxLen == 3
\* longest tail drawn from TailAlphabet that follows a fixture word
MaxTail == 1
\* longest body drawn from StrAlphabet that follows an opening double quote
MaxStr == 4

\* ------------------------------------------------------------- characters
EOF == "EOF"
CR == "\r"
LF == "\n"

Letters ==
  {"A", "B", "C", "D", "E", "F", "G", "H", "I", "J", "K", "L", "M", "N", "O",
   "P", "Q", "R", "S", "T", "U", "V", "W", "X", "Y", "Z", "a", "b", "c", "d",
   "e", "f", "g", "h", "i", "j", "k", "l", "m", "n", "o", "p", "q", "r", "s",
   "t", "u", "v", "w", "x", "y", "z"}

Digits == {"0", "1", "2", "3", "4", "5", "6", "7", "8", "9"}

OctDigits == {"0", "1", "2", "3", "4", "5", "6", "7"}

HexDigits == Digits \cup {"a", "b", "c", "d", "e", "f", "A", "B", "C", "D", "E", "F"}

is_newline(c) == c = CR \/ c = LF

is_whitespace(c) == c = " " \/ c = "\t" \/ is_newline(c)

is_alphabet(c) == c \in Letters

is_digit(c) == c \in Digits

is_underscore(c) == c = "_"

is_hex_digit(c) == c \in HexDigits

Newlines == {CR, LF}

Whitespace == {" ", "\t"} \cup Newlines

IdenChars == Letters \cup {"_"} \cup Digits

get_escaped_char(c) ==
  CASE c = "a" -> "BEL"
    [] c = "b" -> "BS"
    [] c = "e" -> "ESC"
    [] c = "f" -> "FF"
    [] c = "n" -> LF
    [] c = "r" -> CR
    [] c = "t" -> "\t"
    [] c = "v" -> "VT"
    [] c = "\\" -> "\\"
    [] c = "'" -> "'"
    [] c = "\"" -> "\""
    [] c = "?" -> "?"
    [] OTHER -> c

\* ----------------------------------------------------------------- stream
\* fgetc(fin): the character read, EOF when nothing is left
fgetc(f) == IF f = << >> THEN EOF ELSE Head(f)

\* the stream after fgetc(fin)
advance(f) == IF f = << >> THEN f ELSE Tail(f)

\* ungetc(c, fin): ungetc(EOF, fin) leaves the stream unchanged
ungetc(c, f) == IF c = EOF THEN f ELSE <<c>> \o f

\* ungets(s, fin): ungetc of s[strlen(s)-1] down to s[0]
RECURSIVE ungets(_, _)
ungets(s, f) ==
  IF s = << >> THEN f
  ELSE ungets(SubSeq(s, 1, Len(s) - 1), ungetc(s[Len(s)], f))

\* the characters fgets(buf, n, fin) stores: at most k = n - 1 characters,
\* stopping after a line feed or at end of file
RECURSIVE fgets_buf(_, _)
fgets_buf(f, k) ==
  IF k = 0 \/ f = << >> THEN << >>
  ELSE IF Head(f) = LF THEN <<LF>>
  ELSE <<Head(f)>> \o fgets_buf(Tail(f), k - 1)

\* fgets that reads the line feed that stops it without storing it
fgets_without_newline(f, k) ==
  LET b == fgets_buf(f, k)
  IN  [buf |-> SelectSeq(b, LAMBDA c : c # LF),
       f |-> SubSeq(f, Len(b) + 1, Len(f)), ok |-> b # << >>]

\* fgets(buf, k + 1, fin) on a zeroed buf: buf afterwards (left zeroed, the
\* empty string, when fgets returns NULL), the stream, and the result
fgets(f, k) ==
  LET b == fgets_buf(f, k)
  IN  [buf |-> b, f |-> SubSeq(f, Len(b) + 1, Len(f)), ok |-> b # << >>]

\* do { c = fgetc(fin); buf[current++] = c; } while (c \in S);
RECURSIVE do_read(_, _, _)
do_read(f, buf, S) ==
  LET c == fgetc(f)
  IN  IF c \in S THEN do_read(advance(f), Append(buf, c), S)
      ELSE [buf |-> Append(buf, c), f |-> advance(f), c |-> c]

\* while (c \in S) { buf[current++] = c; c = fgetc(fin); }
RECURSIVE while_read(_, _, _, _)
while_read(c, f, buf, S) ==
  IF c \in S THEN while_read(fgetc(f), advance(f), Append(buf, c), S)
  ELSE [buf |-> buf, f |-> f, c |-> c]

\* one output record of fprintf(fout, "<TC>: <content>[ ERROR: <error>]\n")
Rec(tc, content, error) == [tc |-> tc, content |-> content, error |-> error]

\* what a lex function did: its return value, the stream it leaves, the
\* records it printed, and whether it returned at all
Ret(ret, f, out) == [ret |-> ret, f |-> f, out |-> out, returns |-> TRUE]

\* a loop that cannot exit: every further fgetc yields EOF and the loop
\* stores it past the end of its buffer
NoReturn(f) == [ret |-> FALSE, f |-> f, out |-> << >>, returns |-> FALSE]

\* ----------------------------------------------------------------- tables
INCLUDE == <<"i", "n", "c", "l", "u", "d", "e">>

rewds ==
  << <<"i", "f">>,
     <<"e", "l", "s", "e">>,
     <<"w", "h", "i", "l", "e">>,
     <<"f", "o", "r">>,
     <<"d", "o">>,
     <<"s", "w", "i", "t", "c", "h">>,
     <<"c", "a", "s", "e">>,
     <<"d", "e", "f", "a", "u", "l", "t">>,
     <<"c", "o", "n", "t", "i", "n", "u", "e">>,
     <<"i", "n", "t">>,
     <<"f", "l", "o", "a", "t">>,
     <<"d", "o", "u", "b", "l", "e">>,
     <<"c", "h", "a", "r">>,
     <<"b", "r", "e", "a", "k">>,
     <<"s", "t", "a", "t", "i", "c">>,
     <<"e", "x", "t", "e", "r", "n">>,
     <<"a", "u", "t", "o">>,
     <<"r", "e", "g", "i", "s", "t", "e", "r">>,
     <<"s", "i", "z", "e", "o", "f">>,
     <<"u", "n", "i", "o", "n">>,
     <<"s", "t", "r", "u", "c", "t">>,
     <<"e", "n", "u", "m">>,
     <<"r", "e", "t", "u", "r", "n">>,
     <<"g", "o", "t", "o">>,
     <<"c", "o", "n", "s", "t">> >>

\* the operator table with the one-character forms listed first
opers_short_first ==
  << <<"+">>, <<"-">>, <<"*">>, <<"/">>, <<"=">>, <<",">>, <<"%">>, <<"!">>,
     <<"&">>, <<"[">>, <<"]">>, <<"|">>, <<"^">>, <<".">>, <<">">>, <<"<">>,
     <<":">>, <<"?">>,
     <<">", ">">>, <<"<", "<">>, <<"+", "+">>, <<"-", "-">>, <<"+", "=">>,
     <<"-", "=">>, <<"*", "=">>, <<"/", "=">>, <<"%", "=">>, <<"&", "&">>,
     <<"|", "|">>, <<"-", ">">>, <<"=", "=">>, <<">", "=">>, <<"<", "=">>,
     <<"!", "=">> >>

opers ==
  << <<">", ">">>, <<"<", "<">>, <<"+", "+">>, <<"-", "-">>, <<"+", "=">>,
     <<"-", "=">>, <<"*", "=">>, <<"/", "=">>, <<"%", "=">>, <<"&", "&">>,
     <<"|", "|">>, <<"-", ">">>, <<"=", "=">>, <<">", "=">>, <<"<", "=">>,
     <<"!", "=">>,
     <<"+">>, <<"-">>, <<"*">>, <<"/">>, <<"=">>, <<",">>, <<"%">>, <<"!">>,
     <<"&">>, <<"[">>, <<"]">>, <<"|">>, <<"^">>, <<".">>, <<">">>, <<"<">>,
     <<":">>, <<"?">> >>

\* ------------------------------------------------------------ lex functions
\* char str[IDEN_MAX_LEN]
IDEN_MAX_LEN == 32

\* stands for the bytes that follow str in memory, which "%s" prints when
\* str holds no NUL
GARBAGE == "GARBAGE"

\* the value of current when the while loop of scan_iden ends: the number of
\* characters stored with str[current++] = c
iden_current(f) == Len(while_read(fgetc(f), advance(f), << >>, IdenChars).buf)

\* Identifier: the set of what scan_iden can do.  With fewer than
\* IDEN_MAX_LEN characters stored, str ends with a NUL and is printed.
\* With IDEN_MAX_LEN characters stored, str holds no NUL and "%s" reads past
\* its end; with more, str[current++] = c wrote past its end.  Both are
\* undefined: the function may not return, or return after printing the
\* identifier, alone or followed by other bytes
scan_iden(f) ==
  LET c == fgetc(f)
      w == while_read(c, advance(f), << >>, IdenChars)
      g == ungetc(w.c, w.f)
  IN  IF is_alphabet(c) \/ is_underscore(c)
      THEN IF iden_current(f) < IDEN_MAX_LEN
           THEN {Ret(TRUE, g, <<Rec("IDEN", w.buf, "")>>)}
           ELSE {NoReturn(g),
                 Ret(TRUE, g, <<Rec("IDEN", w.buf, "")>>),
                 Ret(TRUE, g, <<Rec("IDEN", Append(w.buf, GARBAGE), "")>>)}
      ELSE {Ret(FALSE, ungetc(c, advance(f)), << >>)}

\* the loop of scan_rewd / scan_oper over table tab, from entry i on
RECURSIVE table_loop(_, _, _, _)
table_loop(tc, tab, f, i) ==
  IF i > Len(tab) THEN Ret(FALSE, f, << >>)
  ELSE LET g == fgets(f, Len(tab[i]))
       IN  IF g.ok /\ g.buf = tab[i]
           THEN Ret(TRUE, g.f, <<Rec(tc, g.buf, "")>>)
           ELSE table_loop(tc, tab, ungets(g.buf, g.f), i + 1)

\* Reserved word
scan_rewd(f) == table_loop("REWD", rewds, f, 1)

\* Operator
scan_oper(f) == table_loop("OPER", opers, f, 1)

\* scan_inte after a do-while that stored one character too many:
\* ungetc(c, fin); buf[current - 1] = 0x00; fprintf
inte_run(r) ==
  Ret(TRUE, ungetc(r.c, r.f), <<Rec("INTE", SubSeq(r.buf, 1, Len(r.buf) - 1), "")>>)

\* scan_inte that pushes back only the character after 0x
scan_inte_keeps_x(f) ==
  LET c == fgetc(f)
      f1 == advance(f)
      c2 == fgetc(f1)
      f2 == advance(f1)
      c3 == fgetc(f2)
      f3 == advance(f2)
  IN  IF ~is_digit(c) THEN Ret(FALSE, ungetc(c, f1), << >>)
      ELSE IF c # "0" THEN inte_run(do_read(f1, <<c>>, Digits))
      ELSE IF c2 \in {"x", "X"}
           THEN IF ~is_hex_digit(c3)
                THEN Ret(TRUE, ungets(<<c3>>, f3), <<Rec("INTE", <<"0">>, "")>>)
                ELSE inte_run(do_read(f3, <<c, c2, c3>>, HexDigits))
      ELSE IF c2 \in OctDigits THEN inte_run(do_read(f2, <<c, c2>>, OctDigits))
      ELSE Ret(TRUE, ungetc(c2, f2), <<Rec("INTE", <<"0">>, "")>>)

\* Integer
scan_inte(f) ==
  LET c == fgetc(f)
      f1 == advance(f)
      c2 == fgetc(f1)
      f2 == advance(f1)
      c3 == fgetc(f2)
      f3 == advance(f2)
  IN  IF ~is_digit(c) THEN Ret(FALSE, ungetc(c, f1), << >>)
      ELSE IF c # "0" THEN inte_run(do_read(f1, <<c>>, Digits))
      ELSE IF c2 \in {"x", "X"}
           THEN IF ~is_hex_digit(c3)
                THEN \* ungets(&buf[current] - 2, fin): the x and what follows it
                     Ret(TRUE, ungets(<<c2, c3>>, f3), <<Rec("INTE", <<"0">>, "")>>)
                ELSE inte_run(do_read(f3, <<c, c2, c3>>, HexDigits))
      ELSE IF c2 \in OctDigits THEN inte_run(do_read(f2, <<c, c2>>, OctDigits))
      ELSE Ret(TRUE, ungetc(c2, f2), <<Rec("INTE", <<"0">>, "")>>)

\* while (ptr > checkpoint) { ungetc(*ptr, fin); *(ptr--) = 0x00; }
\* ptr and checkpoint are positions in buf, counted from 1
RECURSIVE flot_rollback(_, _, _, _)
flot_rollback(buf, ptr, checkpoint, f) ==
  IF ptr > checkpoint
  THEN flot_rollback(SubSeq(buf, 1, ptr - 1), ptr - 1, checkpoint, ungetc(buf[ptr], f))
  ELSE [buf |-> buf, f |-> f]

\* the checkpoint of scan_flot taken one character too late (the E|e itself)
flot_checkpoint_late(buf) == Len(buf)

\* char* checkpoint = &buf[current - 2]: the last character of the mantissa
flot_checkpoint(buf) == Len(buf) - 1

\* scan_flot from "one char before E|e" on; m is the mantissa read, with the
\* character that ended it stored last in m.buf
flot_exponent(m) ==
  LET checkpoint == flot_checkpoint(m.buf)
      c1 == fgetc(m.f)
      f1 == advance(m.f)
      signed == c1 \in {"+", "-"}
      buf2 == IF signed THEN Append(m.buf, c1) ELSE m.buf
      c2 == IF signed THEN fgetc(f1) ELSE c1
      f2 == IF signed THEN advance(f1) ELSE f1
  IN  IF m.c \notin {"E", "e"}
      THEN Ret(TRUE, ungetc(m.c, m.f),
               <<Rec("FLOT", SubSeq(m.buf, 1, Len(m.buf) - 1), "")>>)
      ELSE IF is_digit(c2)
      THEN LET w == while_read(c2, f2, buf2, Digits)
           IN  Ret(TRUE, ungetc(w.c, w.f), <<Rec("FLOT", w.buf, "")>>)
      ELSE LET b == flot_rollback(buf2, Len(buf2), checkpoint, ungetc(c2, f2))
           IN  Ret(TRUE, b.f, <<Rec("FLOT", b.buf, "")>>)

\* scan_flot that does not push back a digit run that no '.' follows
scan_flot_keeps_digits(f) ==
  LET c0 == fgetc(f)
      signed == c0 \in {"+", "-"}
      buf0 == IF signed THEN <<c0>> ELSE << >>
      f0 == IF signed THEN advance(f) ELSE ungetc(c0, advance(f))
      c1 == fgetc(f0)
      f1 == advance(f0)
      buf1 == Append(buf0, c1)
      c2 == fgetc(f1)
      f2 == advance(f1)
      buf2 == Append(buf1, c2)
  IN  IF is_digit(c1)
      THEN LET r == do_read(f1, buf1, Digits)
           IN  IF r.c # "." THEN Ret(FALSE, ungetc(r.c, r.f), << >>)
               ELSE flot_exponent(do_read(r.f, r.buf, Digits))
      ELSE IF c1 = "."
      THEN IF is_digit(c2) THEN flot_exponent(do_read(f2, buf2, Digits))
           ELSE Ret(FALSE, ungets(buf2, f2), << >>)
      ELSE Ret(FALSE, ungets(buf1, f1), << >>)

\* Float
scan_flot(f) ==
  LET c0 == fgetc(f)
      signed == c0 \in {"+", "-"}
      buf0 == IF signed THEN <<c0>> ELSE << >>
      f0 == IF signed THEN advance(f) ELSE ungetc(c0, advance(f))
      c1 == fgetc(f0)
      f1 == advance(f0)
      buf1 == Append(buf0, c1)
      c2 == fgetc(f1)
      f2 == advance(f1)
      buf2 == Append(buf1, c2)
  IN  IF is_digit(c1)
      THEN LET r == do_read(f1, buf1, Digits)
           IN  IF r.c # "." THEN Ret(FALSE, ungets(r.buf, r.f), << >>)
               ELSE flot_exponent(do_read(r.f, r.buf, Digits))
      ELSE IF c1 = "."
      THEN IF is_digit(c2) THEN flot_exponent(do_read(f2, buf2, Digits))
           ELSE Ret(FALSE, ungets(buf2, f2), << >>)
      ELSE Ret(FALSE, ungets(buf1, f1), << >>)

\* while (c \notin Stop) { buf[current++] = c; c = fgetc(fin); }
\* EOF is not in Stop: once fgetc yields EOF the loop cannot exit
RECURSIVE until_read(_, _, _, _)
until_read(c, f, buf, Stop) ==
  IF c \in Stop THEN [buf |-> buf, f |-> f, c |-> c, returns |-> TRUE]
  ELSE IF c = EOF THEN [buf |-> buf, f |-> f, c |-> c, returns |-> FALSE]
  ELSE until_read(fgetc(f), advance(f), Append(buf, c), Stop)

\* do { c = fgetc(fin); buf[current++] = c; } while (c \notin Stop);
\* when EOF is not in Stop the loop cannot exit once fgetc yields EOF
RECURSIVE do_until(_, _, _)
do_until(f, buf, Stop) ==
  LET c == fgetc(f)
  IN  IF c \in Stop
      THEN [buf |-> Append(buf, c), f |-> advance(f), c |-> c, returns |-> TRUE]
      ELSE IF c = EOF
      THEN [buf |-> buf, f |-> f, c |-> c, returns |-> FALSE]
      ELSE do_until(advance(f), Append(buf, c), Stop)

\* Char literal
scan_char(f) ==
  LET c == fgetc(f)
      f1 == advance(f)
      r == until_read(fgetc(f1), advance(f1), << >>, {"'"} \cup Newlines)
  IN  IF c # "'" THEN Ret(FALSE, ungetc(c, f1), << >>)
      ELSE IF ~r.returns THEN NoReturn(r.f)
      ELSE IF r.buf = << >>
      THEN Ret(TRUE, r.f, <<Rec("CHAR", << >>, "expected at least one char literal")>>)
      ELSE IF r.c = "'" THEN Ret(TRUE, r.f, <<Rec("CHAR", r.buf, "")>>)
      ELSE Ret(TRUE, r.f, <<Rec("CHAR", r.buf, "missing '")>>)

\* the while loop of scan_str, entered with c read and f the stream after it
RECURSIVE str_loop(_, _, _)
str_loop(c, f, buf) ==
  LET c1 == fgetc(f)
      f1 == advance(f)
      \* do { c = fgetc(fin); } while (is_whitespace(c));
      k == do_read(f1, << >>, Whitespace)
  IN  IF c = "\"" \/ is_newline(c)
      THEN [buf |-> buf, f |-> f, c |-> c, returns |-> TRUE]
      ELSE IF c = EOF
      THEN [buf |-> buf, f |-> f, c |-> c, returns |-> FALSE]
      ELSE IF c = "\\"
      THEN IF c1 = LF
           THEN str_loop(fgetc(k.f), advance(k.f), Append(buf, k.c))
           ELSE str_loop(fgetc(f1), advance(f1), Append(buf, get_escaped_char(c1)))
      ELSE str_loop(c1, f1, Append(buf, c))

\* String literal
scan_str(f) ==
  LET c == fgetc(f)
      f1 == advance(f)
      r == str_loop(fgetc(f1), advance(f1), << >>)
  IN  IF c # "\"" THEN Ret(FALSE, ungetc(c, f1), << >>)
      ELSE IF ~r.returns THEN NoReturn(r.f)
      ELSE IF r.c = "\"" THEN Ret(TRUE, r.f, <<Rec("STR", r.buf, "")>>)
      ELSE Ret(TRUE, r.f, <<Rec("STR", r.buf, "missing \"")>>)

\* Special symbol
scan_spec(f) ==
  LET c == fgetc(f)
  IN  IF c \in {"{", "}", "(", ")", ";"}
      THEN Ret(TRUE, advance(f), <<Rec("SPEC", <<c>>, "")>>)
      ELSE Ret(FALSE, ungetc(c, advance(f)), << >>)

\* Single line comment
scan_sc(f) ==
  LET g == fgets(f, 2)
      \* Read until newline or EOF
      r == do_until(ungets(g.buf, g.f), << >>, Newlines \cup {EOF})
  IN  IF g.buf = <<"/", "/">>
      THEN Ret(TRUE, r.f, <<Rec("SC", SubSeq(r.buf, 1, Len(r.buf) - 1), "")>>)
      ELSE Ret(FALSE, ungets(g.buf, g.f), << >>)

\* the do-while of scan_mc: "Read until */ is seen"
RECURSIVE mc_loop(_)
mc_loop(f) ==
  LET c == fgetc(f)
      f1 == advance(f)
      c2 == fgetc(f1)
      f2 == advance(f1)
  IN  IF c = "*"
      THEN IF c2 = "/" THEN Ret(TRUE, f2, <<Rec("MC", << >>, "")>>)
           ELSE IF c2 = EOF THEN Ret(TRUE, f2, <<Rec("MC", << >>, "missing */")>>)
           ELSE mc_loop(f2)
      ELSE IF c = EOF THEN Ret(TRUE, f1, <<Rec("MC", << >>, "missing */")>>)
      ELSE mc_loop(f1)

\* scan_mc that leaves the body of a comment without closer unread
scan_mc_keeps_body(f) ==
  LET g == fgets(f, 2)
      r == mc_loop(g.f)
  IN  IF g.buf = <<"/", "*">>
      THEN IF r.out[1].error = "" THEN r ELSE Ret(TRUE, g.f, r.out)
      ELSE Ret(FALSE, ungets(g.buf, g.f), << >>)

\* Multi line comment
scan_mc(f) ==
  LET g == fgets(f, 2)
  IN  IF g.buf = <<"/", "*">> THEN mc_loop(g.f)
      ELSE Ret(FALSE, ungets(g.buf, g.f), << >>)

\* scan_prep that pushes back all it read when no < or " follows include
scan_prep_unreads_all(f) ==
  LET c == fgetc(f)
      f1 == advance(f)
      \* Skip whitespaces between # and include
      w == while_read(fgetc(f1), advance(f1), <<"#">>, Whitespace)
      \* Try to get "include" from ifstream
      g == fgets(ungetc(w.c, w.f), Len(INCLUDE))
      \* Skip whitespaces between include and < or "
      w2 == while_read(fgetc(g.f), advance(g.f), w.buf \o INCLUDE, Whitespace)
      buf == Append(w2.buf, w2.c)
      closing_symbol == IF w2.c = "<" THEN ">" ELSE "\""
      \* Read until the closing symbol or newline
      d == do_until(w2.f, buf, {closing_symbol} \cup Newlines)
  IN  IF c # "#" THEN Ret(FALSE, ungetc(c, f1), << >>)
      ELSE IF g.buf # INCLUDE
      THEN Ret(FALSE, ungets(INCLUDE, g.f),
               <<Rec("PREP", w.buf \o g.buf, "expected \"include\"")>>)
      ELSE IF w2.c \notin {"<", "\""}
      THEN Ret(TRUE, f, <<Rec("PREP", buf, "expected < or \"")>>)
      ELSE IF ~d.returns THEN NoReturn(d.f)
      ELSE IF d.c = closing_symbol THEN Ret(TRUE, d.f, <<Rec("PREP", d.buf, "")>>)
      ELSE Ret(TRUE, d.f, <<Rec("PREP", d.buf,
                                IF closing_symbol = ">" THEN "missing >" ELSE "missing \"")>>)

\* Preprocessor directive
scan_prep(f) ==
  LET c == fgetc(f)
      f1 == advance(f)
      \* Skip whitespaces between # and include
      w == while_read(fgetc(f1), advance(f1), <<"#">>, Whitespace)
      \* Try to get "include" from ifstream
      g == fgets(ungetc(w.c, w.f), Len(INCLUDE))
      \* Skip whitespaces between include and < or "
      w2 == while_read(fgetc(g.f), advance(g.f), w.buf \o INCLUDE, Whitespace)
      buf == Append(w2.buf, w2.c)
      closing_symbol == IF w2.c = "<" THEN ">" ELSE "\""
      \* Read until the closing symbol or newline
      d == do_until(w2.f, buf, {closing_symbol} \cup Newlines)
  IN  IF c # "#" THEN Ret(FALSE, ungetc(c, f1), << >>)
      ELSE IF g.buf # INCLUDE
      THEN Ret(FALSE, ungets(INCLUDE, g.f),
               <<Rec("PREP", w.buf \o g.buf, "expected \"include\"")>>)
      ELSE IF w2.c \notin {"<", "\""}
      THEN Ret(TRUE, ungetc(w2.c, w2.f), <<Rec("PREP", buf, "expected < or \"")>>)
      ELSE IF ~d.returns THEN NoReturn(d.f)
      ELSE IF d.c = closing_symbol THEN Ret(TRUE, d.f, <<Rec("PREP", d.buf, "")>>)
      ELSE Ret(TRUE, d.f, <<Rec("PREP", d.buf,
                                IF closing_symbol = ">" THEN "missing >" ELSE "missing \"")>>)

\* ------------------------------------------------------------- dispatcher
TC_LAST == 11

\* lex[] with scan_iden placed before scan_rewd
lex_iden_first ==
  <<"scan_sc", "scan_mc", "scan_prep", "scan_spec", "scan_iden", "scan_char",
    "scan_str", "scan_flot", "scan_oper", "scan_rewd", "scan_inte">>

\* lex[]: get_next_token calls these functions in this order
lex ==
  <<"scan_sc", "scan_mc", "scan_prep", "scan_spec", "scan_rewd", "scan_char",
    "scan_str", "scan_flot", "scan_oper", "scan_iden", "scan_inte">>

\* ----------------------------------------------------------------- inputs
Alphabet ==
  {"e", "0", ".", "-", "=", " ", LF, "/", "*", "'", "\""}

TailAlphabet == {"e", "x", "0", "8", ".", "-", "=", "@", " ", LF}

\* sequences over A of length at most n
RECURSIVE Strings(_, _)
Strings(A, n) ==
  IF n = 0 THEN {<< >>}
  ELSE LET S == Strings(A, n - 1)
       IN  S \cup {Append(s, a) : s \in {t \in S : Len(t) = n - 1}, a \in A}

\* words of the fixtures of test/scanner_test.sh that Alphabet cannot spell
Fixtures ==
  { \* the characters left out of Alphabet, each in front of every tail
    <<"x">>, <<"8">>, <<"#">>, <<"@">>, <<";">>,
    <<"1", ".", "0", "e", "-", "n">>,
    <<"3", ".", "5", "E", "+">>,
    <<"3", ".", "e">>,
    <<".", "5", "e", "-">>,
    <<"2", "5", "a", "a", "a">>,
    <<"i", "n", "t", "x">>,
    <<"_", "a", "1">>,
    <<"0", "x", "f", "f">>,
    <<"0", "x">>,
    <<"0", "8">>,
    <<"0", "7", "7">>,
    <<"0", "x", "8">>,
    <<"0", "2", "3", "4">>,
    <<"#", "d", "e", "f", "i", "n", "e", " ", "X">>,
    <<"#", "i", "n", "c", "l", "u", "d", "e", "<", "a", ">">>,
    <<"#", "i", "n", "c", "l", "u", "d", "e", "<", "a">>,
    <<"#", " ", "i", "n", "c", "l", "u", "d", "e", " ", "\"", "a", "\"">>,
    <<"#", "i", "n", "c", "l", "u", "d", "e", " ", "\"", "a">>,
    <<"#", "i", "n", "c", "l", "u", "d", "e", " ", "x">>,
    \* char literals: escapes, missing closing quote
    <<"'", "\\", "n", "'">>,
    <<"'", "\\", "t", "'">>,
    <<"'", "o">>,
    \* string literals: continuation lines, escapes
    <<"\"", "a", "\\", LF, " ", "b", "\"">>,
    <<"\"", "a", "\\", LF, "\"">>,
    <<"\"", "\\", LF, "\\", "n", "\"">>,
    <<"\"", "a", "\\", LF, "\\", LF, "b", "\"">>,
    <<"\"", "a", "\\", LF, " ", "\\", LF, "b", "\"">>,
    <<"\"", "\\", "a", "\\", "b", "\\", "e", "\\", "f", "\\", "n", "\\", "r",
      "\\", "t", "\\", "v", "\\", "\\", "\\", "'", "\\", "\"", "\\", "?",
      "\\", "q", "\"">>,
    <<"\"", "a", "b", "c">>,
    \* comments
    <<"/", "*", "*", "*", "/">>,
    <<"/", "*", " ", "x", " ", "*", "*", "/">>,
    <<"/", "*", " ", "x", " ", "*", "/">>,
    <<"/", "*", " ", "x", LF, "*">>,
    <<"0", " ", "/", "*", " ", "x", LF, " ", "*", " ">>,
    <<"/", "/", LF, "/", "/">>,
    <<"/", "/", " ", "a", LF, "/", "/", " ", "b">> }

\* identifiers as long as str, one character shorter and one longer
LongIdens ==
  {[j \in 1..n |-> "a"] : n \in {IDEN_MAX_LEN - 1, IDEN_MAX_LEN, IDEN_MAX_LEN + 1}}

Words == {rewds[k] : k \in 1..Len(rewds)} \cup Fixtures \cup LongIdens

\* the characters that matter inside a string literal
StrAlphabet == {"\"", "\\", LF, " ", "n"}

Inputs ==
  Strings(Alphabet, MaxLen)
    \cup {w \o t : w \in Words, t \in Strings(TailAlphabet, MaxTail)}
    \cup {<<"\"">> \o b : b \in Strings(StrAlphabet, MaxStr)}

\* ------------------------------------------------------------------ state
VARIABLES
  input,        \* the content of the input file
  istream,      \* fin: the characters still unread
  out,          \* fout: the records printed so far
  line_number,  \* static unsigned int line_number
  pc,           \* "lex": in get_next_token; "peek": back in main's loop;
                \* "done": main left the loop; "crashed" / "looping": a lex
                \* function ran past its buffer at end of file
  i,            \* the index of get_next_token's for loop
  tried,        \* the calls lex[0..] of the current (when i = 0 and
                \* pc = "lex": of the previous) get_next_token call
  tokens        \* the calls that returned true, since the start

vars == <<input, istream, out, line_number, pc, i, tried, tokens>>

Init ==
  /\ input \in Inputs
  /\ istream = input
  /\ out = << >>
  /\ line_number = 1
  /\ pc = "lex"
  /\ i = 0
  /\ tried = << >>
  /\ tokens = << >>

\* get_next_token is about to call lex[i], which is fn
AtCall(fn) ==
  /\ pc = "lex"
  /\ i < TC_LAST
  /\ lex[i + 1] = fn

\* the rest of one iteration of the for loop of get_next_token, when lex[i],
\* which is fn, did r: if (lex[i](fin, fout)) return;
Return(fn, r) ==
  LET call == [fn |-> fn, ret |-> r.ret, returns |-> r.returns,
               before |-> istream, after |-> r.f, nout |-> Len(out)]
  IN  /\ tried' = IF i = 0 THEN <<call>> ELSE Append(tried, call)
      /\ tokens' = IF r.returns /\ r.ret
                    THEN Append(tokens, [fn |-> fn, before |-> istream,
                                         after |-> r.f, rec |-> r.out[Len(r.out)],
                                         line |-> line_number])
                    ELSE tokens
      /\ istream' = r.f
      /\ out' = out \o r.out
      /\ IF ~r.returns
         THEN /\ pc' \in {"crashed", "looping"}
              /\ i' = i
         ELSE IF r.ret
         THEN /\ pc' = "peek"
              /\ i' = i
         ELSE /\ pc' = IF i + 1 < TC_LAST THEN "lex" ELSE "peek"
              /\ i' = i + 1
      /\ UNCHANGED <<input, line_number>>

Call_scan_sc ==
  /\ AtCall("scan_sc")
  /\ \E r \in {scan_sc(istream)} : Return("scan_sc", r)

Call_scan_mc ==
  /\ AtCall("scan_mc")
  /\ \E r \in {scan_mc(istream)} : Return("scan_mc", r)

Call_scan_prep ==
  /\ AtCall("scan_prep")
  /\ \E r \in {scan_prep(istream)} : Return("scan_prep", r)

Call_scan_spec ==
  /\ AtCall("scan_spec")
  /\ \E r \in {scan_spec(istream)} : Return("scan_spec", r)

Call_scan_rewd ==
  /\ AtCall("scan_rewd")
  /\ \E r \in {scan_rewd(istream)} : Return("scan_rewd", r)

Call_scan_char ==
  /\ AtCall("scan_char")
  /\ \E r \in {scan_char(istream)} : Return("scan_char", r)

Call_scan_str ==
  /\ AtCall("scan_str")
  /\ \E r \in {scan_str(istream)} : Return("scan_str", r)

Call_scan_flot ==
  /\ AtCall("scan_flot")
  /\ \E r \in {scan_flot(istream)} : Return("scan_flot", r)

Call_scan_oper ==
  /\ AtCall("scan_oper")
  /\ \E r \in {scan_oper(istream)} : Return("scan_oper", r)

Call_scan_iden ==
  /\ AtCall("scan_iden")
  /\ \E r \in scan_iden(istream) : Return("scan_iden", r)

Call_scan_inte ==
  /\ AtCall("scan_inte")
  /\ \E r \in {scan_inte(istream)} : Return("scan_inte", r)

\* main's loop after get_next_token returned: one character lookahead, skip
\* it if it is a whitespace, leave the loop at EOF
Lookahead ==
  /\ pc = "peek"
  /\ LET c == fgetc(istream)
     IN  IF is_whitespace(c)
         THEN /\ line_number' = line_number + (IF is_newline(c) THEN 1 ELSE 0)
              /\ istream' = advance(istream)
              /\ pc' = "lex"
         ELSE /\ UNCHANGED <<line_number, istream>>
              /\ pc' = IF c # EOF THEN "lex" ELSE "done"
  /\ i' = 0
  /\ UNCHANGED <<input, out, tried, tokens>>

Next ==
  \/ Call_scan_sc
  \/ Call_scan_mc
  \/ Call_scan_prep
  \/ Call_scan_spec
  \/ Call_scan_rewd
  \/ Call_scan_char
  \/ Call_scan_str
  \/ Call_scan_flot
  \/ Call_scan_oper
  \/ Call_scan_iden
  \/ Call_scan_inte
  \/ Lookahead

Spec == Init /\ [][Next]_vars

TypeOK ==
  /\ pc \in {"lex", "peek", "done", "crashed", "looping"}
  /\ i \in 0..TC_LAST
  /\ Len(tried) <= TC_LAST

\* --------------------------------------------------------------- helpers
Last(s) == s[Len(s)]

IsSuffix(s, t) ==
  Len(s) <= Len(t) /\ s = SubSeq(t, Len(t) - Len(s) + 1, Len(t))

StartsWith(s, p) == Len(p) <= Len(s) /\ SubSeq(s, 1, Len(p)) = p

\* the character of s at position k, EOF past the end
At(s, k) == IF k \in 1..Len(s) THEN s[k] ELSE EOF

\* the length of the longest run of characters of S in s from position k on
Run(s, k, S) ==
  CHOOSE n \in 0..Len(s) :
    /\ \A j \in k..(k + n - 1) : At(s, j) \in S
    /\ At(s, k + n) \notin S

\* a lex function has just been called: tried describes this call
Called == tried # << >> /\ (pc # "lex" \/ i > 0)

\* the last call returned false / true
Declined == Called /\ Last(tried).returns /\ ~Last(tried).ret

Accepted == Called /\ Last(tried).returns /\ Last(tried).ret

\* ----------------------------------------------------------------- claims
\* C1: a lex function that returns false leaves the unread input exactly as
\* it found it: after every declined call the stream equals the stream
\* before the call.
C1_DeclineRestoresStream ==
  Declined => istream = Last(tried).before

\* C2: the characters consumed so far followed by the characters still
\* unread are the original input: at every point of the run the unread
\* input is a suffix of the input file (nothing dropped, read twice,
\* reordered or replaced).
C2_InputReconstructed ==
  pc \in {"lex", "peek", "done"} => IsSuffix(istream, input)

\* main is about to call get_next_token again in the very state in which it
\* called it the last time: the run is deterministic, so it repeats forever
SameStateAgain ==
  /\ pc = "lex"
  /\ i = 0
  /\ tried # << >>
  /\ istream = tried[1].before
  /\ Len(out) = tried[1].nout

\* C3: for every finite input main's loop ends: every lex function returns
\* and no iteration of the loop brings main back to the state it started
\* the iteration in.
C3_Terminates ==
  /\ pc \notin {"crashed", "looping"}
  /\ ~SameStateAgain

\* the previous get_next_token call tried all eleven lex functions at a
\* character that is neither whitespace nor EOF, none accepted, and main is
\* about to call get_next_token again
Unscannable ==
  /\ pc = "lex"
  /\ i = 0
  /\ Len(tried) = TC_LAST
  /\ \A k \in 1..TC_LAST : tried[k].returns /\ ~tried[k].ret
  /\ tried[1].before # << >>
  /\ ~is_whitespace(Head(tried[1].before))

\* C4: when no lex function accepts at a character that is neither
\* whitespace nor EOF, one error record is printed for that character and
\* the stream is one character further before the next get_next_token call.
C4_UnscannableSkipped ==
  Unscannable =>
    /\ istream = Tail(tried[1].before)
    /\ Len(out) = tried[1].nout + 1
    /\ Last(out).error # ""

\* the order of the recognizers and the class each one emits
PriorityOrder ==
  << [fn |-> "scan_sc", tc |-> "SC"], [fn |-> "scan_mc", tc |-> "MC"],
     [fn |-> "scan_prep", tc |-> "PREP"], [fn |-> "scan_spec", tc |-> "SPEC"],
     [fn |-> "scan_rewd", tc |-> "REWD"], [fn |-> "scan_char", tc |-> "CHAR"],
     [fn |-> "scan_str", tc |-> "STR"], [fn |-> "scan_flot", tc |-> "FLOT"],
     [fn |-> "scan_oper", tc |-> "OPER"], [fn |-> "scan_iden", tc |-> "IDEN"],
     [fn |-> "scan_inte", tc |-> "INTE"] >>

\* C5: in every get_next_token call the k-th lex function called is the
\* k-th of the order SC, MC, PREP, SPEC, REWD, CHAR, STR, FLOT, OPER, IDEN,
\* INTE; only the last one called can have accepted, and then
\* get_next_token has returned and the record printed last is of that
\* function's class.
C5_PriorityOrder ==
  /\ Len(tried) <= Len(PriorityOrder)
  /\ \A k \in 1..Len(tried) :
       /\ tried[k].fn = PriorityOrder[k].fn
       /\ k < Len(tried) => tried[k].returns /\ ~tried[k].ret
  /\ Accepted =>
       /\ pc \in {"peek", "done"}
       /\ Last(out).tc = PriorityOrder[Len(tried)].tc
       /\ Last(tokens).fn = Last(tried).fn
  /\ (pc = "lex" /\ i > 0) => Len(tried) = i /\ Declined

\* the last recognizer of the order accepted after the ten before it declined
C5_Witness ==
  Accepted /\ Len(tried) = 11 /\ Last(out).tc = "INTE"

\* C6: when scan_rewd has accepted, the next unread character is not a
\* letter, a digit or an underscore.
C6_KeywordBoundary ==
  (Accepted /\ Last(tried).fn = "scan_rewd") => fgetc(istream) \notin IdenChars

\* an input that is a keyword followed by whitespace or by nothing
KeywordAlone ==
  \E k \in 1..Len(rewds) :
    input \in {rewds[k], Append(rewds[k], " "), Append(rewds[k], LF)}

\* C7: a keyword of the table followed by whitespace or end of input yields
\* exactly one record, of class REWD, whose content is the whole keyword.
C7_WholeKeyword ==
  (pc = "done" /\ KeywordAlone) =>
    \E k \in 1..Len(rewds) :
      /\ StartsWith(input, rewds[k])
      /\ Len(input) <= Len(rewds[k]) + 1
      /\ out = <<Rec("REWD", rewds[k], "")>>

TwoCharOpers ==
  { <<">", ">">>, <<"<", "<">>, <<"+", "+">>, <<"-", "-">>, <<"+", "=">>,
    <<"-", "=">>, <<"*", "=">>, <<"/", "=">>, <<"%", "=">>, <<"&", "&">>,
    <<"|", "|">>, <<"-", ">">>, <<"=", "=">>, <<">", "=">>, <<"<", "=">>,
    <<"!", "=">> }

\* the stream starts with a two-character operator
AtTwoCharOper(f) == Len(f) >= 2 /\ SubSeq(f, 1, 2) \in TwoCharOpers

\* C8: when scan_oper is called on a stream that starts with a
\* two-character operator it accepts and prints that operator, leaving the
\* stream right after it; it prints a one-character operator only when no
\* two-character operator starts the stream.
C8_LongestOperator ==
  (Called /\ Last(tried).fn = "scan_oper") =>
    LET f == Last(tried).before
    IN  /\ AtTwoCharOper(f) =>
             /\ Accepted
             /\ Last(out) = Rec("OPER", SubSeq(f, 1, 2), "")
             /\ istream = SubSeq(f, 3, Len(f))
        /\ (Accepted /\ Len(Last(out).content) = 1) =>
             /\ ~AtTwoCharOper(f)
             /\ Last(out).content = <<Head(f)>>
             /\ istream = Tail(f)

\* scan_oper accepted a two-character operator whose first character is a
\* one-character operator of the table
C8_Witness ==
  /\ Accepted
  /\ Last(tried).fn = "scan_oper"
  /\ Last(out).content \in {<<"=", "=">>, <<"-", "=">>, <<"-", "-">>}

Signs == {"+", "-"}

\* the forms of an integer literal that starts the stream f, for the token
\* tok printed and the stream rest left
IntegerForm(f, tok, rest) ==
  LET hex == Run(f, 3, HexDigits)
      oct == Run(f, 1, OctDigits)
      dec == Run(f, 1, Digits)
  IN  IF Head(f) # "0"
      THEN tok = SubSeq(f, 1, dec) /\ rest = SubSeq(f, dec + 1, Len(f))
      ELSE IF At(f, 2) \in {"x", "X"} /\ hex > 0
      THEN tok = SubSeq(f, 1, 2 + hex) /\ rest = SubSeq(f, 3 + hex, Len(f))
      ELSE IF At(f, 2) \in OctDigits
      THEN tok = SubSeq(f, 1, oct) /\ rest = SubSeq(f, oct + 1, Len(f))
      ELSE tok = <<"0">> /\ rest = Tail(f)

\* C9: scan_inte on a stream that starts with 0: 0x and hex digits give the
\* whole hexadecimal literal; 0x without a hex digit gives 0 and leaves the
\* stream right after the 0, so that the next token starts at the x; 0 and
\* octal digits give the longest octal run; 0 and then 8 or 9 gives 0 and
\* the next token is an integer that starts at that digit; a nonzero digit
\* gives the longest run of decimal digits.
C9_IntegerForms ==
  \A k \in 1..Len(tokens) :
    tokens[k].fn = "scan_inte" =>
      LET f == tokens[k].before
      IN  /\ tokens[k].rec.tc = "INTE"
          /\ tokens[k].rec.error = ""
          /\ IntegerForm(f, tokens[k].rec.content, tokens[k].after)
          /\ (Head(f) = "0" /\ At(f, 2) \in {"x", "X"} /\ ~is_hex_digit(At(f, 3))
                /\ k < Len(tokens)) =>
               /\ tokens[k + 1].before = Tail(f)
               /\ Head(tokens[k + 1].rec.content) = At(f, 2)
          /\ (Head(f) = "0" /\ At(f, 2) \in {"8", "9"} /\ k < Len(tokens)) =>
               /\ tokens[k + 1].before = Tail(f)
               /\ tokens[k + 1].rec.tc = "INTE"
               /\ Head(tokens[k + 1].rec.content) = At(f, 2)

\* scan_inte met 0x and no hex digit, and the x has been scanned again
C9_Witness ==
  \E k \in 1..Len(tokens) :
    /\ tokens[k].fn = "scan_inte"
    /\ StartsWith(tokens[k].before, <<"0", "x">>)
    /\ Len(tokens[k].before) > 2
    /\ ~is_hex_digit(At(tokens[k].before, 3))
    /\ k < Len(tokens)

\* the length of the mantissa (sign)? (digits '.' digits? | '.' digits) that
\* starts the stream f, 0 if there is none
Mantissa(f) ==
  LET sg == IF At(f, 1) \in Signs THEN 1 ELSE 0
      d1 == Run(f, sg + 1, Digits)
      d2 == Run(f, sg + d1 + 2, Digits)
  IN  IF At(f, sg + d1 + 1) = "." /\ d1 + d2 > 0 THEN sg + d1 + 1 + d2 ELSE 0

\* after the mantissa of f comes E|e that is not followed, after an
\* optional sign, by a digit
BadExponent(f) ==
  LET m == Mantissa(f)
      es == IF At(f, m + 2) \in Signs THEN 1 ELSE 0
  IN  /\ m > 0
      /\ At(f, m + 1) \in {"E", "e"}
      /\ ~is_digit(At(f, m + 2 + es))

\* C10: when the mantissa is followed by E|e without a digit after the
\* optional sign, scan_flot prints exactly the mantissa and leaves the
\* stream right after it, so that the next token starts at the E|e; the
\* input 1.0e-n yields FLOT 1.0, IDEN e, OPER -, IDEN n.
C10_ExponentRollback ==
  /\ \A k \in 1..Len(tokens) :
       (tokens[k].fn = "scan_flot" /\ BadExponent(tokens[k].before)) =>
         LET f == tokens[k].before
             m == Mantissa(f)
         IN  /\ tokens[k].rec = Rec("FLOT", SubSeq(f, 1, m), "")
             /\ tokens[k].after = SubSeq(f, m + 1, Len(f))
             /\ k < Len(tokens) => tokens[k + 1].before = tokens[k].after
  /\ (pc = "done" /\ input = <<"1", ".", "0", "e", "-", "n">>) =>
       out = << Rec("FLOT", <<"1", ".", "0">>, ""), Rec("IDEN", <<"e">>, ""),
                Rec("OPER", <<"-">>, ""), Rec("IDEN", <<"n">>, "") >>

\* scan_flot rolled back an exponent with a sign, and the sign has been
\* scanned again as an operator
C10_Witness ==
  \E k \in 1..Len(tokens) :
    /\ tokens[k].fn = "scan_flot"
    /\ BadExponent(tokens[k].before)
    /\ At(tokens[k].before, Mantissa(tokens[k].before) + 2) \in Signs
    /\ k + 2 <= Len(tokens)
    /\ tokens[k + 2].rec.tc = "OPER"

\* the call of scan_flot of the current get_next_token call (the eighth)
FlotCall == tried[8]

\* C11: scan_flot accepts exactly when the stream starts, after an optional
\* sign, with digits and a '.' or with a '.' and a digit; when it declines
\* the stream is as before the call; a digit run that no '.' follows is then
\* accepted by scan_inte from its first digit on (25aaa yields INTE 25, IDEN
\* aaa), and a '.' that no digit follows is printed as the operator '.'.
C11_FloatAccepts ==
  /\ (Called /\ Last(tried).fn = "scan_flot") =>
       /\ Last(tried).returns
       /\ Last(tried).ret <=> Mantissa(Last(tried).before) > 0
       /\ ~Last(tried).ret => istream = Last(tried).before
  /\ (Accepted /\ Len(tried) > 8 /\ is_digit(At(FlotCall.before, 1))) =>
       /\ Last(tried).fn = "scan_inte"
       /\ Last(tried).before = FlotCall.before
       /\ Last(out).tc = "INTE"
  /\ (Accepted /\ Len(tried) > 8 /\ At(FlotCall.before, 1) = ".") =>
       /\ Last(tried).fn = "scan_oper"
       /\ Last(out) = Rec("OPER", <<".">>, "")
       /\ istream = Tail(FlotCall.before)
  /\ (pc = "done" /\ input = <<"2", "5", "a", "a", "a">>) =>
       out = << Rec("INTE", <<"2", "5">>, ""), Rec("IDEN", <<"a", "a", "a">>, "") >>

\* scan_flot declined a '.' that a character other than a digit follows, and
\* scan_oper printed the '.'
C11_Witness ==
  /\ Accepted
  /\ Len(tried) = 9
  /\ Len(FlotCall.before) > 1
  /\ Last(out) = Rec("OPER", <<".">>, "")

\* the number of characters of s from position k on that come before the
\* first character of Stop or the end of s
Upto(s, k, Stop) ==
  CHOOSE n \in 0..Len(s) :
    /\ \A j \in k..(k + n - 1) : At(s, j) \notin Stop \cup {EOF}
    /\ At(s, k + n) \in Stop \cup {EOF}

\* C12: when scan_char is called on a ' that no ' follows before the end of
\* the line or of the input, it returns true after printing exactly one
\* record: CHAR, the characters read so far, and the error "missing '"; on
\* the input 'o the scan then ends with that one record.
C12_UnclosedCharLiteral ==
  /\ (Called /\ Last(tried).fn = "scan_char") =>
       LET f == Last(tried).before
           n == Upto(f, 2, {"'"} \cup Newlines)
       IN  (At(f, 1) = "'" /\ At(f, n + 2) # "'") =>
             /\ Accepted
             /\ Len(out) = Last(tried).nout + 1
             /\ Last(out) = Rec("CHAR", SubSeq(f, 2, n + 1), "missing '")
  /\ (input = <<"'", "o">> /\ pc \notin {"lex", "peek"}) =>
       /\ pc = "done"
       /\ out = <<Rec("CHAR", <<"o">>, "missing '")>>

\* C13: when scan_char is called on ' \ c ' (c a character that is not a
\* newline), it prints CHAR with the single character that the escape \c
\* stands for (a newline for \n, a tab for \t) and leaves the stream right
\* after the closing quote.
C13_CharEscape ==
  (Called /\ Last(tried).fn = "scan_char") =>
    LET f == Last(tried).before
    IN  (/\ At(f, 1) = "'"
         /\ At(f, 2) = "\\"
         /\ At(f, 3) \notin Newlines \cup {EOF}
         /\ At(f, 4) = "'") =>
          /\ Accepted
          /\ Last(out) = Rec("CHAR", <<get_escaped_char(At(f, 3))>>, "")
          /\ istream = SubSeq(f, 5, Len(f))

\* the string literal that starts the stream f, read from position k on as
\* the grammar of string literals reads it: a backslash and a newline are
\* dropped together with the whitespace that follows, a backslash and
\* another character stand for one character, the first quote that is not
\* escaped closes the literal, a newline or the end of f leaves it open.
\* a collects the lexeme, whether a continuation (cont) or an escape (esc)
\* was met, and whether an escape came right after a continuation (mixed)
RECURSIVE StrLiteral(_, _, _)
StrLiteral(f, k, a) ==
  LET c == At(f, k)
      d == At(f, k + 1)
  IN  IF c = "\""
      THEN [a EXCEPT !.closed = TRUE, !.end = k + 1]
      ELSE IF c \in Newlines \cup {EOF} \/ (c = "\\" /\ d = EOF)
      THEN [a EXCEPT !.end = k]
      ELSE IF c = "\\" /\ d \in Newlines
      THEN StrLiteral(f, k + 2 + Run(f, k + 2, Whitespace),
                      [a EXCEPT !.cont = TRUE, !.after = TRUE])
      ELSE IF c = "\\"
      THEN StrLiteral(f, k + 2,
                      [a EXCEPT !.lexeme = Append(@, get_escaped_char(d)),
                                !.esc = TRUE, !.after = FALSE,
                                !.mixed = @ \/ a.after])
      ELSE StrLiteral(f, k + 1,
                      [a EXCEPT !.lexeme = Append(@, c), !.after = FALSE])

\* the string literal that starts the stream f, whose first character is "
StrOf(f) ==
  StrLiteral(f, 2, [lexeme |-> << >>, closed |-> FALSE, end |-> 2, cont |-> FALSE,
                    esc |-> FALSE, after |-> FALSE, mixed |-> FALSE])

\* C14: when scan_str is called on a string literal that holds a backslash
\* directly followed by a newline and that a quote closes, it prints STR with
\* the fragments joined (backslash, newline and the whitespace that starts
\* the next line left out, whatever the first character after that
\* whitespace is) and leaves the stream right after the closing quote.
C14_StringContinuation ==
  (Called /\ Last(tried).fn = "scan_str" /\ At(Last(tried).before, 1) = "\"") =>
    LET f == Last(tried).before
        lit == StrOf(f)
    IN  (lit.cont /\ lit.closed) =>
          /\ Accepted
          /\ Last(out) = Rec("STR", lit.lexeme, "")
          /\ istream = SubSeq(f, lit.end, Len(f))

\* C15: when scan_str is called on a string literal that no quote closes
\* before a newline that is not escaped or before the end of the input, it
\* returns true after printing exactly one record: STR, the content read so
\* far, and the error "missing ""; the stream is left at the end of the
\* literal (before or after the newline that ended it).
C15_UnclosedString ==
  (Called /\ Last(tried).fn = "scan_str" /\ At(Last(tried).before, 1) = "\"") =>
    LET f == Last(tried).before
        lit == StrOf(f)
    IN  ~lit.closed =>
          /\ Accepted
          /\ Len(out) = Last(tried).nout + 1
          /\ Last(out).tc = "STR"
          /\ Last(out).error = "missing \""
          /\ ~lit.cont => Last(out).content = lit.lexeme
          /\ istream \in {SubSeq(f, lit.end, Len(f)), SubSeq(f, lit.end + 1, Len(f))}

\* the position of the first * of s, from position k on, that a / follows;
\* 0 if there is none
FirstCloser(s, k) ==
  LET P == {j \in k..Len(s) : At(s, j) = "*" /\ At(s, j + 1) = "/"}
  IN  IF P = {} THEN 0 ELSE CHOOSE j \in P : \A m \in P : j <= m

\* C16: when scan_mc is called on /* and the characters */ occur after the
\* opener, it prints exactly one record, MC without error, and leaves the
\* stream right after the first */, whatever the comment holds (also when a
\* * comes directly before the closer, as in /* x **/).
C16_CommentCloser ==
  (Called /\ Last(tried).fn = "scan_mc") =>
    LET f == Last(tried).before
        j == FirstCloser(f, 3)
    IN  (StartsWith(f, <<"/", "*">>) /\ j > 0) =>
          /\ Accepted
          /\ Len(out) = Last(tried).nout + 1
          /\ Last(out) = Rec("MC", << >>, "")
          /\ istream = SubSeq(f, j + 2, Len(f))

\* the line of the input on which the stream f starts, f being what is left
\* of the input: 1 plus the number of newlines read before it
LineOf(f) ==
  1 + Cardinality({j \in 1..(Len(input) - Len(f)) : input[j] \in Newlines})

\* C17: whenever a lex function prints a token, line_number is the line of
\* the input on which the token starts: 1 plus the number of newlines of the
\* input before the first character of the token, whichever lex functions
\* read the lines before it.
C17_TokenLine ==
  \A k \in 1..Len(tokens) :
    IsSuffix(tokens[k].before, input) => tokens[k].line = LineOf(tokens[k].before)

\* C18: a lex function that returns false has printed nothing: after every
\* declined call the output is as long as before the call; in particular
\* scan_prep on a # that "include" does not follow prints no record.
C18_DeclinePrintsNothing ==
  Declined => Len(out) = Last(tried).nout

\* C19: when scan_str is called on a string literal that a quote closes and
\* that holds a backslash followed by a character other than a newline, the
\* lexeme printed has, for every such pair, the one character the escape
\* stands for (get_escaped_char: the translation of a b e f n r t v \ ' " ?,
\* any other character itself); an escaped quote or an escaped n does not
\* end the literal, which ends at the first quote that is not escaped.
C19_StringEscape ==
  (Called /\ Last(tried).fn = "scan_str" /\ At(Last(tried).before, 1) = "\"") =>
    LET f == Last(tried).before
        lit == StrOf(f)
    IN  (lit.esc /\ lit.closed) =>
          /\ Accepted
          /\ Last(out) = Rec("STR", lit.lexeme, "")
          /\ istream = SubSeq(f, lit.end, Len(f))

\* C20: when scan_mc is called on /* and no */ follows the opener, it
\* returns true after printing exactly one record, MC with an empty content
\* and the error "missing */", and has read the input to its end; no token
\* is printed after it, and main leaves its loop at the next lookahead.
C20_OpenComment ==
  /\ (Called /\ Last(tried).fn = "scan_mc"
         /\ StartsWith(Last(tried).before, <<"/", "*">>)
         /\ FirstCloser(Last(tried).before, 3) = 0) =>
       /\ Accepted
       /\ Len(out) = Last(tried).nout + 1
       /\ pc \in {"peek", "done"}
  /\ \A k \in 1..Len(tokens) :
       (tokens[k].fn = "scan_mc" /\ FirstCloser(tokens[k].before, 3) = 0) =>
         /\ tokens[k].rec = Rec("MC", << >>, "missing */")
         /\ tokens[k].after = << >>
         /\ istream = << >>
         /\ k = Len(tokens)
         /\ Last(out) = tokens[k].rec
         /\ Last(tried).fn = "scan_mc"

\* main has left its loop after a comment without closer that spans two
\* lines and comes after another token
C20_Witness ==
  /\ pc = "done"
  /\ Len(tokens) > 1
  /\ Last(tokens).rec = Rec("MC", << >>, "missing */")
  /\ \E j \in 1..Len(Last(tokens).before) : Last(tokens).before[j] = LF

\* C21: when scan_sc accepts, it prints one record, SC, whose content is the
\* // and every character after it up to, not including, the first newline
\* or the end of the input, and it leaves the stream at that newline: the
\* newline is still unread when scan_sc returns.
C21_CommentLine ==
  \A k \in 1..Len(tokens) :
    tokens[k].fn = "scan_sc" =>
      LET f == tokens[k].before
          n == 2 + Upto(f, 3, Newlines)
      IN  /\ tokens[k].rec = Rec("SC", SubSeq(f, 1, n), "")
          /\ tokens[k].after = SubSeq(f, n + 1, Len(f))

\* the characters of s at positions a..b, EOF for a position past the end
Slice(s, a, b) == [j \in 1..(b - a + 1) |-> At(s, a + j - 1)]

\* the position in f of the < or " that opens the file name of the directive
\* # (whitespace) include (whitespace) that starts f; 0 if f does not start
\* with such a directive
PrepOpener(f) ==
  LET w1 == Run(f, 2, Whitespace)
      w2 == Run(f, 2 + w1 + Len(INCLUDE), Whitespace)
      p == 2 + w1 + Len(INCLUDE) + w2
  IN  IF /\ At(f, 1) = "#"
         /\ Slice(f, 2 + w1, 1 + w1 + Len(INCLUDE)) = INCLUDE
         /\ At(f, p) \in {"<", "\""}
      THEN p ELSE 0

\* C22: when scan_prep is called on # include and an opening < or ", it
\* returns true after printing exactly one record: when the closer (> for <,
\* " for ") comes before a newline and the end of the input, PREP with the
\* directive as written up to the closer, the stream left right after the
\* closer; otherwise PREP with the text up to, not including, the newline or
\* the end of the input, and the error "missing >" or "missing "".
C22_Directive ==
  (Called /\ Last(tried).fn = "scan_prep" /\ PrepOpener(Last(tried).before) > 0) =>
    LET f == Last(tried).before
        p == PrepOpener(f)
        closer == IF f[p] = "<" THEN ">" ELSE "\""
        n == Upto(f, p + 1, {closer} \cup Newlines)
    IN  /\ Accepted
        /\ Len(out) = Last(tried).nout + 1
        /\ IF At(f, p + n + 1) = closer
           THEN /\ Last(out) = Rec("PREP", SubSeq(f, 1, p + n + 1), "")
                /\ istream = SubSeq(f, p + n + 2, Len(f))
           ELSE Last(out) = Rec("PREP", SubSeq(f, 1, p + n),
                                IF closer = ">" THEN "missing >" ELSE "missing \"")

\* C23: when scan_iden is called at a letter or an underscore it returns
\* true after printing exactly one record, IDEN with the longest run of
\* letters, digits and underscores that starts the stream, and leaves the
\* stream at the first character after the run; called at any other
\* character it returns false, with the stream and the output as before.
C23_Identifier ==
  (Called /\ Last(tried).fn = "scan_iden") =>
    LET f == Last(tried).before
        n == Run(f, 1, IdenChars)
    IN  IF is_alphabet(At(f, 1)) \/ is_underscore(At(f, 1))
        THEN /\ Accepted
             /\ Len(out) = Last(tried).nout + 1
             /\ Last(out) = Rec("IDEN", SubSeq(f, 1, n), "")
             /\ istream = SubSeq(f, n + 1, Len(f))
        ELSE /\ Declined
             /\ Len(out) = Last(tried).nout
             /\ istream = f

\* C26: however long the identifier, when scan_iden has stored its
\* characters the number stored (the index after the last write into str)
\* is smaller than IDEN_MAX_LEN: every write was inside str and a NUL is
\* left after the last character stored.
C26_IdentifierFits ==
  (Called /\ Last(tried).fn = "scan_iden") =>
    iden_current(Last(tried).before) < IDEN_MAX_LEN

\* the numbers of characters the lex functions ask fgets for: the lengths
\* of the keywords, of the operators, of // and /*, and of include
ReadSizes ==
  {Len(rewds[k]) : k \in 1..Len(rewds)} \cup {Len(opers[k]) : k \in 1..Len(opers)}
    \cup {2, Len(INCLUDE)}

\* the stream after fgets(buf, N + 1, fin); ungets(buf, fin);
RoundTrip(f, N) ==
  LET g == fgets(f, N)
  IN  ungets(g.buf, g.f)

\* C24: reading up to N characters with fgets and pushing the buffer back
\* with ungets leaves the stream as it was, so that the next reads return
\* the same characters in the same order, for every N the lex functions use
\* and every stream, also when a newline or the end of the input cut the
\* read short; the lex functions that decline with ungets(buf, fin) leave
\* the stream as they found it.  A stream equal to the one the last call
\* started on was examined in the state where it first appeared.
C24_PushBackRoundTrip ==
  /\ (tried = << >> \/ istream # Last(tried).before) =>
       \A N \in ReadSizes : RoundTrip(istream, N) = istream
  /\ (Declined /\ Last(tried).fn \in {"scan_sc", "scan_mc", "scan_rewd", "scan_oper"}) =>
       istream = Last(tried).before

\* scan_rewd has declined on a stream whose second character is a newline:
\* every fgets of its loop was cut short by the newline
C24_Witness ==
  /\ Declined
  /\ Last(tried).fn = "scan_rewd"
  /\ Len(Last(tried).before) > 2
  /\ Last(tried).before[1] \in Letters
  /\ Last(tried).before[2] = LF

\* C25: whenever a lex function returns true it has consumed at least one
\* character: the stream after the call is a proper suffix of the stream
\* before it, also when scan_flot rolled back an exponent, when scan_inte
\* met 0x without a hex digit and when scan_prep met include without < or ".
C25_AcceptConsumes ==
  /\ Accepted =>
       /\ Len(istream) < Len(Last(tried).before)
       /\ IsSuffix(istream, Last(tried).before)
  /\ \A k \in 1..Len(tokens) : Len(tokens[k].after) < Len(tokens[k].before)

\* scan_prep has accepted include without < or " after it
C25_Witness ==
  /\ Accepted
  /\ Last(tried).fn = "scan_prep"
  /\ Last(out).error = "expected < or \""
  /\ istream # << >>

=============================================================================
